---- MODULE Spec2Model ----
(***************************************************************************)
(* Task Manager API (backend/main.py): an in-memory task store behind five *)
(* FastAPI handlers.  The store is the module-level dict tasks_db and the  *)
(* module-level counter current_id.                                        *)
(*                                                                         *)
(* Spec       : the handlers run one at a time, each as one atomic action. *)
(* SpecUpdate : one PUT on a store of one task, every body over the keys.  *)
(* SpecConc   : the threadpool runs the handlers of several requests at    *)
(*              once; a step is one read or write of the shared state.     *)
(***************************************************************************)
EXTENDS Integers, Sequences, FiniteSets, TLC

VARIABLES
    tasks_db,    \* dict[int, Task] in insertion order: a sequence of [k, v] entries
    current_id,  \* the module-level id counter
    last,        \* the request handled last and the response it got
    created,     \* history: the ids returned by the successful create_task calls, in order
    shadow,      \* history: id -> the values the responses so far say the task has
    untouched,   \* history: the ids with no successful update or delete since their create
    reqs         \* SpecConc: per threadpool worker, the request it runs and its locals

vars == <<tasks_db, current_id, last, created, shadow, untouched, reqs>>

(***************************************************************************)
(* Bounds of the model.                                                    *)
(***************************************************************************)
MaxCreates == 2      \* create_task handler runs per behaviour
NumWorkers == 2      \* threads of the pool that run handlers at the same time

(***************************************************************************)
(* JSON values.  Null is JSON null / Python None; BadType is a JSON value  *)
(* that no field type accepts (a list).                                    *)
(***************************************************************************)
Null == "None"
BadType == "[]"

BaseFields == {"title", "description", "status", "due_date", "assignee"}
ExtraFields == {"id", "created_at"}
TaskFields == BaseFields \cup ExtraFields

Times == {1, 2}               \* what datetime.utcnow() may return
SeqTimes == {1}               \* ... in the runs of Spec, where created_at is cargo
TaskIdArgs == 0 .. MaxCreates \* the path parameter task_id; 0 is never issued

\* The values a request body may carry under a key of BaseFields.
JsonVals(f) ==
    CASE f = "title"       -> {"t1", "t2", Null, BadType}
      [] f = "description" -> {"d1", Null}
      [] f = "status"      -> {"todo", "done", Null}
      [] f = "due_date"    -> {"2025-12-31", Null, BadType}
      [] f = "assignee"    -> {"a1", Null}

\* The values a request body may carry under "id" and "created_at".
ExtraVals(f) == IF f = "id" THEN {99} ELSE {0}

\* The values a request body may carry under a key.
KeyVals(f) == IF f \in BaseFields THEN JsonVals(f) ELSE ExtraVals(f)

\* Every JSON object with exactly the keys ks.
RECURSIVE Bodies(_)
Bodies(ks) ==
    IF ks = {}
    THEN {<<>>}
    ELSE LET f == CHOOSE x \in ks : TRUE
         IN  {(f :> v) @@ b : v \in KeyVals(f), b \in Bodies(ks \ {f})}

\* The request bodies of POST /tasks and PUT /tasks/{task_id} the model sends.
CreateKeySets ==
    {{}, {"title"}, {"status"}, {"title", "status"}, {"title", "description"}}
UpdateKeySets ==
    {{}, {"title"}, {"status"}, {"description"}, {"status", "id", "created_at"}}
CreateBodies == UNION {Bodies(ks) : ks \in CreateKeySets}
UpdateBodies == UNION {Bodies(ks) : ks \in UpdateKeySets}

(***************************************************************************)
(* The pydantic models.                                                    *)
(***************************************************************************)
IsStr(v) == v # Null /\ v # BadType
IsOptional(v) == v # BadType

\* Field types of TaskBase: title and status are str, the rest Optional.
TaskBaseFieldOk(f, v) == IF f \in {"title", "status"} THEN IsStr(v) ELSE IsOptional(v)

\* Variant: status declared without its default "todo".
TaskBaseDefault_NoStatus(f) == Null

\* Field defaults of TaskBase (title has none: it is required).
TaskBaseDefault(f) == IF f = "status" THEN "todo" ELSE Null

\* TaskCreate accepts the body: title present, every declared field of its type.
\* Keys that are no field of the model are ignored.
TaskCreateValid(raw) ==
    /\ "title" \in DOMAIN raw
    /\ \A f \in DOMAIN raw \cap BaseFields : TaskBaseFieldOk(f, raw[f])

\* task_in.dict(): the declared fields, defaults filled in.
TaskCreateDict(raw) ==
    [f \in BaseFields |-> IF f \in DOMAIN raw THEN raw[f] ELSE TaskBaseDefault(f)]

\* TaskUpdate accepts the body: every declared field is Optional.
TaskUpdateValid(raw) ==
    \A f \in DOMAIN raw \cap BaseFields : IsOptional(raw[f])

\* Variant: TaskUpdate configured to keep the keys it does not declare.
TaskUpdateFieldsSet_AllowExtra(raw) == DOMAIN raw

\* The fields TaskUpdate keeps from a body: its declared ones.
TaskUpdateFieldsSet(raw) == DOMAIN raw \cap BaseFields

\* Variant: task_update.dict() without exclude_unset, unset fields as None.
TaskUpdateDict_WithUnset(raw) ==
    [f \in BaseFields |-> IF f \in DOMAIN raw THEN raw[f] ELSE Null]

\* task_update.dict(exclude_unset=True): the declared fields the body set.
TaskUpdateDict(raw) == [f \in TaskUpdateFieldsSet(raw) |-> raw[f]]

\* Task(**data) validates: title and status are str (id: int, created_at: datetime).
TaskValid(data) ==
    /\ IsStr(data["title"])
    /\ IsStr(data["status"])
    /\ \A f \in BaseFields \ {"title", "status"} : IsOptional(data[f])

\* Task(**data): the model built from the keyword arguments.
Task(data) == [f \in TaskFields |-> data[f]]

(***************************************************************************)
(* Python dict, insertion ordered.                                         *)
(***************************************************************************)
NoTask == [none |-> TRUE]    \* what tasks_db.get returns for a missing key

DictKeys(d) == {d[i].k : i \in 1 .. Len(d)}
DictIndex(d, key) == CHOOSE i \in 1 .. Len(d) : d[i].k = key
\* key in d
DictHas(d, key) == key \in DictKeys(d)
\* d.get(key)
DictGet(d, key) == IF DictHas(d, key) THEN d[DictIndex(d, key)].v ELSE NoTask
\* Variant: the entry is removed and inserted again, which moves it to the end.
DictSet_MoveToEnd(d, key, value) ==
    Append(SelectSeq(d, LAMBDA e : e.k # key), [k |-> key, v |-> value])

\* d[key] = value: in place for a key of d, appended otherwise
DictSet(d, key, value) ==
    IF DictHas(d, key)
    THEN [d EXCEPT ![DictIndex(d, key)] = [k |-> key, v |-> value]]
    ELSE Append(d, [k |-> key, v |-> value])
\* del d[key], for a key of d
DictDel(d, key) ==
    LET i == DictIndex(d, key)
    IN  SubSeq(d, 1, i - 1) \o SubSeq(d, i + 1, Len(d))
\* list(d.values())
DictValues(d) == [i \in 1 .. Len(d) |-> d[i].v]
\* a.update(b) on plain dicts of fields
DictUpdate(a, b) ==
    [f \in DOMAIN a \cup DOMAIN b |-> IF f \in DOMAIN b THEN b[f] ELSE a[f]]

(***************************************************************************)
(* The store.                                                              *)
(***************************************************************************)
\* Variant: the value before the increment is returned.
get_next_id_Stale(cid) == [current_id |-> cid + 1, result |-> cid]

\* Variant: the next id is taken from the size of the dict.
get_next_id_FromLen(cid) ==
    [current_id |-> Len(tasks_db) + 1, result |-> Len(tasks_db) + 1]

\* get_next_id: current_id += 1; return current_id
get_next_id(cid) == [current_id |-> cid + 1, result |-> cid + 1]

\* list_tasks(): list(tasks_db.values())
list_tasks(db) == DictValues(db)

\* The task create_task builds from the validated body.
NewTask(task_id, now, raw) ==
    Task(DictUpdate([id |-> task_id, created_at |-> now], TaskCreateDict(raw)))

\* Variant: a replace, the fields the body leaves out reset to their defaults.
updated_task_data_Replace(stored_task, raw) ==
    DictUpdate(DictUpdate(stored_task,
                          [f \in BaseFields \ {"title"} |-> TaskBaseDefault(f)]),
               TaskUpdateDict(raw))

\* update_task: stored_task.dict() overlaid with the fields the body set.
updated_task_data(stored_task, raw) == DictUpdate(stored_task, TaskUpdateDict(raw))

\* Variant: the entry inserted last is removed (popitem).
Deleted_Last(db, task_id) == SubSeq(db, 1, Len(db) - 1)

\* Variant: nothing is removed.
Deleted_Nothing(db, task_id) == db

\* What delete_task leaves of the dict.
Deleted(db, task_id) == DictDel(db, task_id)

(***************************************************************************)
(* History kept for the properties: what the responses so far promise.     *)
(***************************************************************************)
Overlay(old, raw) ==
    [f \in DOMAIN old |-> IF f \in BaseFields /\ f \in DOMAIN raw THEN raw[f] ELSE old[f]]

Without(fn, key) == [x \in DOMAIN fn \ {key} |-> fn[x]]

\* A handled request: the handler, its path parameter, the keys of its JSON
\* body, and the response: the HTTP status and the tasks in the response body.
Response(op, task_id, raw, status, body) ==
    [op |-> op, task_id |-> task_id, keys |-> DOMAIN raw,
     status |-> status, body |-> body]

EmptyBody == <<>>    \* the JSON object {}; also stands for "no body"

(***************************************************************************)
(* A worker thread of the pool: the handler it runs (op), the handler's    *)
(* arguments (task_id, raw), where it stands (pc) and its locals: tmp is   *)
(* the value of current_id that current_id += 1 has loaded, task_id the    *)
(* id get_next_id returned (create_task), stored_task what tasks_db.get    *)
(* returned (update_task).  status is the response of a finished request.  *)
(***************************************************************************)
Workers == 1 .. NumWorkers

Request(op, pc, task_id, raw, tmp, stored_task, status) ==
    [op |-> op, pc |-> pc, task_id |-> task_id, raw |-> raw, tmp |-> tmp,
     stored_task |-> stored_task, status |-> status]

NoRequest == Request("none", "idle", 0, EmptyBody, 0, NoTask, 0)

(***************************************************************************)
(* The handlers, one request at a time.                                    *)
(***************************************************************************)
Init ==
    /\ tasks_db = <<>>
    /\ current_id = 0
    /\ last = Response("start", 0, EmptyBody, 0, <<>>)
    /\ created = <<>>
    /\ shadow = <<>>
    /\ untouched = {}
    /\ reqs = [w \in Workers |-> NoRequest]

\* Variant: the handler takes the raw body, allocates the id, then validates.
create_task_IdFirst(raw, now) ==
    LET nxt == get_next_id(current_id)
        task == NewTask(nxt.result, now, raw)
    IN  /\ Len(created) < MaxCreates
        /\ current_id' = nxt.current_id
        /\ IF ~TaskCreateValid(raw)
           THEN /\ last' = Response("create_task", 0, raw, 422, <<>>)
                /\ UNCHANGED <<tasks_db, created, shadow, reqs>>
           ELSE /\ tasks_db' = DictSet(tasks_db, nxt.result, task)
                /\ last' = Response("create_task", 0, raw, 201, <<task>>)
                /\ created' = Append(created, task.id)
                /\ shadow' = (task.id :> task) @@ shadow
                /\ UNCHANGED reqs

\* POST /tasks.  The framework validates the body against TaskCreate before it
\* calls the handler, and answers 422 without calling it.
create_task(raw, now) ==
    IF ~TaskCreateValid(raw)
    THEN /\ last' = Response("create_task", 0, raw, 422, <<>>)
         /\ UNCHANGED <<tasks_db, current_id, created, shadow, reqs>>
    ELSE /\ Len(created) < MaxCreates
         /\ LET nxt == get_next_id(current_id)
                task_id == nxt.result
                task == NewTask(task_id, now, raw)
            IN  /\ current_id' = nxt.current_id
                /\ tasks_db' = DictSet(tasks_db, task_id, task)
                /\ last' = Response("create_task", 0, raw, 201, <<task>>)
                /\ created' = Append(created, task.id)
                /\ shadow' = (task.id :> task) @@ shadow
                /\ UNCHANGED reqs

\* GET /tasks
ListTasks ==
    /\ last' = Response("list_tasks", 0, EmptyBody, 200, list_tasks(tasks_db))
    /\ UNCHANGED <<tasks_db, current_id, created, shadow, reqs>>

\* GET /tasks/{task_id}
get_task(task_id) ==
    LET task == DictGet(tasks_db, task_id)
    IN  /\ last' = IF task = NoTask
                   THEN Response("get_task", task_id, EmptyBody, 404, <<>>)
                   ELSE Response("get_task", task_id, EmptyBody, 200, <<task>>)
        /\ UNCHANGED <<tasks_db, current_id, created, shadow, reqs>>

\* PUT /tasks/{task_id}.  422 from the framework for a body TaskUpdate rejects;
\* a ValidationError raised by Task(**updated_task_data) inside the handler is
\* an unhandled exception, which the framework answers with 500.
update_task(task_id, raw) ==
    LET stored_task == DictGet(tasks_db, task_id)
        data == updated_task_data(stored_task, raw)
    IN  IF ~TaskUpdateValid(raw)
        THEN /\ last' = Response("update_task", task_id, raw, 422, <<>>)
             /\ UNCHANGED <<tasks_db, current_id, created, shadow, reqs>>
        ELSE IF stored_task = NoTask
        THEN /\ last' = Response("update_task", task_id, raw, 404, <<>>)
             /\ UNCHANGED <<tasks_db, current_id, created, shadow, reqs>>
        ELSE IF ~TaskValid(data)
        THEN /\ last' = Response("update_task", task_id, raw, 500, <<>>)
             /\ UNCHANGED <<tasks_db, current_id, created, shadow, reqs>>
        ELSE /\ tasks_db' = DictSet(tasks_db, task_id, Task(data))
             /\ last' = Response("update_task", task_id, raw, 200, <<Task(data)>>)
             /\ shadow' = IF task_id \in DOMAIN shadow
                          THEN [shadow EXCEPT ![task_id] = Overlay(@, raw)]
                          ELSE shadow
             /\ UNCHANGED <<current_id, created, reqs>>

\* DELETE /tasks/{task_id}
delete_task(task_id) ==
    IF ~DictHas(tasks_db, task_id)
    THEN /\ last' = Response("delete_task", task_id, EmptyBody, 404, <<>>)
         /\ UNCHANGED <<tasks_db, current_id, created, shadow, reqs>>
    ELSE /\ tasks_db' = Deleted(tasks_db, task_id)
         /\ last' = Response("delete_task", task_id, EmptyBody, 204, <<>>)
         /\ shadow' = Without(shadow, task_id)
         /\ UNCHANGED <<current_id, created, reqs>>

\* The history variable untouched is kept by SpecRoundTrip only.
Untracked == UNCHANGED untouched

Next ==
    \/ \E raw \in CreateBodies, now \in SeqTimes :
           create_task(raw, now) /\ Untracked
    \/ ListTasks /\ Untracked
    \/ \E task_id \in TaskIdArgs : get_task(task_id) /\ Untracked
    \/ \E task_id \in TaskIdArgs, raw \in UpdateBodies :
           update_task(task_id, raw) /\ Untracked
    \/ \E task_id \in TaskIdArgs : delete_task(task_id) /\ Untracked

Spec == Init /\ [][Next]_vars

Range(seq) == {seq[i] : i \in 1 .. Len(seq)}
Live == DOMAIN shadow          \* the ids created and not since deleted
Handled(op) == last.op = op    \* the request handled last

(***************************************************************************)
(* SpecUpdate: one PUT /tasks/1 on a store that holds one task.  The task  *)
(* is any one a POST with all five fields leaves in the empty store, the   *)
(* body any JSON object over the seven keys.                               *)
(***************************************************************************)
AllBodies == UNION {Bodies(ks) : ks \in SUBSET TaskFields}

InitUpdate ==
    \E raw \in Bodies(BaseFields), now \in Times :
        LET nxt == get_next_id(0)
            task == NewTask(nxt.result, now, raw)
        IN  /\ TaskCreateValid(raw)
            /\ tasks_db = DictSet(<<>>, nxt.result, task)
            /\ current_id = nxt.current_id
            /\ last = Response("create_task", 0, raw, 201, <<task>>)
            /\ created = <<task.id>>
            /\ shadow = (task.id :> task)
            /\ untouched = {}
            /\ reqs = [w \in Workers |-> NoRequest]

PutOnce ==
    /\ Handled("create_task")
    /\ \E raw \in AllBodies : update_task(1, raw)
    /\ Untracked

SpecUpdate == InitUpdate /\ [][PutOnce]_vars

(***************************************************************************)
(* SpecRoundTrip: the handlers, one request at a time, with the history of *)
(* which ids no request has updated or deleted since their create.  The    *)
(* PUT bodies are the empty one and those with a status.                   *)
(***************************************************************************)
RoundTripUpdateBodies == UNION {Bodies(ks) : ks \in {{}, {"status"}}}

\* untouched after the request answered in last': a create adds the id it
\* returns, an update answered 200 or a delete answered 204 removes its id.
Tracked ==
    untouched' =
        CASE last'.op = "create_task" /\ last'.status = 201
                 -> untouched \cup {last'.body[1].id}
          [] last'.op = "update_task" /\ last'.status = 200
                 -> untouched \ {last'.task_id}
          [] last'.op = "delete_task" /\ last'.status = 204
                 -> untouched \ {last'.task_id}
          [] OTHER -> untouched

NextRoundTrip ==
    \/ \E raw \in CreateBodies, now \in SeqTimes :
           create_task(raw, now) /\ Tracked
    \/ ListTasks /\ Tracked
    \/ \E task_id \in TaskIdArgs : get_task(task_id) /\ Tracked
    \/ \E task_id \in TaskIdArgs, raw \in RoundTripUpdateBodies :
           update_task(task_id, raw) /\ Tracked
    \/ \E task_id \in TaskIdArgs : delete_task(task_id) /\ Tracked

SpecRoundTrip == Init /\ [][NextRoundTrip]_vars

(***************************************************************************)
(* Properties of the sequential store (Spec).                              *)
(***************************************************************************)

\* C1: the k-th successful create_task returns id k, so N creates return the
\* distinct, strictly increasing ids 1..N whatever else ran in between.
C1_IdsInCreationOrder ==
    /\ \A k \in 1 .. Len(created) : created[k] = k
    /\ (Handled("create_task") /\ last.status = 201)
           => last.body[1].id = Len(created)

\* C1 witness: two creates with a delete and a failed request between them.
C1_Witness ==
    /\ Len(created) = 2
    /\ ~DictHas(tasks_db, 1)
    /\ Handled("create_task") /\ last.status = 422

\* C2: list_tasks() returns exactly the tasks created and not since deleted,
\* once each, every one with the values of its creation overlaid by its
\* successful updates in order.
C2_ListIsLiveLatest ==
    LET listed == list_tasks(tasks_db)
    IN  /\ {listed[i].id : i \in 1 .. Len(listed)} = Live
        /\ Len(listed) = Cardinality(Live)
        /\ \A i \in 1 .. Len(listed) : listed[i] = shadow[listed[i].id]
        /\ Live \subseteq Range(created)
        /\ Handled("list_tasks") => last.body = listed

\* C2 witness: a listing after two creates, an update and a delete.
C2_Witness ==
    /\ Handled("list_tasks")
    /\ Len(created) = 2
    /\ Len(last.body) = 1
    /\ last.body[1].id = 1
    /\ last.body[1].status = "done"
    /\ last.body[1].description = "d1"

\* C3: an id is never reused, also not after its task was deleted, and the
\* counter never decreases.
C3_NoIdReuse ==
    [][/\ current_id' >= current_id
       /\ Len(created') >= Len(created)
       /\ \A i \in 1 .. Len(created') :
              i > Len(created) => created'[i] \notin Range(created)
       /\ \A i \in 1 .. Len(created) : created'[i] = created[i]]_vars

\* C3 witness: task 1 was deleted and the create after it got another id.
C3_Witness ==
    /\ Handled("create_task") /\ last.status = 201
    /\ ~DictHas(tasks_db, 1)
    /\ 1 \in Range(created)
    /\ last.body[1].id = 2

\* C4: get_task, update_task and delete_task called with an id never issued,
\* or issued and since deleted, answer 404 and leave the dict and the counter
\* as they were.  (A PUT whose body TaskUpdate rejects never reaches
\* update_task: the framework answers it 422.)
C4_MissingIdNotFound ==
    [][(/\ last'.op \in {"get_task", "update_task", "delete_task"}
        /\ last'.task_id \notin Live
        /\ last'.status # 422)
       => (/\ last'.status = 404
           /\ tasks_db' = tasks_db
           /\ current_id' = current_id)]_vars

\* C4 witness: an update of a deleted id, answered 404.
C4_Witness ==
    /\ Handled("update_task") /\ last.status = 404
    /\ last.task_id \in Range(created)
    /\ last.task_id \notin Live

\* C5: the id and created_at stored under a key stay the ones assigned at
\* creation; no update body, one carrying id or created_at included, changes them.
C5_IdCreatedAtImmutable ==
    [][/\ \A k \in DictKeys(tasks_db) \cap DictKeys(tasks_db') :
              /\ DictGet(tasks_db', k).id = DictGet(tasks_db, k).id
              /\ DictGet(tasks_db', k).created_at = DictGet(tasks_db, k).created_at
       /\ \A k \in DictKeys(tasks_db') :
              /\ DictGet(tasks_db', k).id = k
              /\ k \notin DictKeys(tasks_db) => k \notin Range(created)]_vars

\* C5 witness: a successful update whose body carried id and created_at.
C5_Witness ==
    /\ Handled("update_task") /\ last.status = 200
    /\ ExtraFields \subseteq last.keys
    /\ last.body[1].id = last.task_id
    /\ last.body[1].id # 99
    /\ last.body[1].created_at # 0

\* The stored fields after update_task(1, raw) are the body's where the body
\* has the field and the previous ones elsewhere, and the response carries
\* the task now stored.
MergedBy(raw) ==
    LET old == DictGet(tasks_db, 1)
        new == DictGet(tasks_db', 1)
    IN  /\ \A f \in BaseFields :
               new[f] = IF f \in DOMAIN raw THEN raw[f] ELSE old[f]
        /\ last'.body = <<new>>

\* C6 (as amended): an update_task on an existing id that returns a task is a
\* merge: each of the five fields is the body's value if the body has the
\* field and the previous value if not, and the returned task is the stored one.
C6_ReturnedUpdateIsMerge ==
    [][\A raw \in Bodies(last'.keys) :
           (update_task(1, raw) /\ last'.status = 200) => MergedBy(raw)]_vars

\* C6 as stated: every update_task call on an existing id is such a merge.
\* (The bodies TaskUpdate rejects never reach update_task.)
C6_EveryUpdateIsMerge ==
    [][\A raw \in Bodies(last'.keys) :
           (update_task(1, raw) /\ TaskUpdateValid(raw)) => MergedBy(raw)]_vars

\* C6 witness: an update that set status and cleared description, kept the
\* title, the due date and the assignee, and returned the task.
C6_Witness ==
    /\ Handled("update_task") /\ last.status = 200
    /\ last.keys = {"status", "description"}
    /\ last.body[1].status = "done"
    /\ last.body[1].description = Null
    /\ last.body[1].title = "t2"
    /\ last.body[1].due_date = "2025-12-31"
    /\ last.body[1].assignee = "a1"
    /\ last.body[1].created_at = 2

\* C7: update_task(id, {}) on an existing id answers 200 with the task as it
\* was and leaves the dict (that task and every other) and the counter as
\* they were.
C7_EmptyUpdateNoOp ==
    [][\A k \in DictKeys(tasks_db) :
           update_task(k, EmptyBody)
           => (/\ last'.status = 200
               /\ last'.body = <<DictGet(tasks_db, k)>>
               /\ tasks_db' = tasks_db
               /\ current_id' = current_id)]_vars

\* C7 witness: an empty update answered 200 with two tasks stored.
C7_Witness ==
    /\ Handled("update_task") /\ last.status = 200
    /\ last.keys = {}
    /\ Len(tasks_db) = 2
    /\ last.body[1].status = "done"

\* C8: a create whose body lacks title, or has a title that is no string, is
\* answered 422 and changes neither the dict nor the counter; the next
\* successful create gets the id after the last one issued.
TitleMissingOrWrong(raw) == "title" \notin DOMAIN raw \/ ~IsStr(raw["title"])

C8_RejectedCreateMutatesNothing ==
    [][/\ \A raw \in CreateBodies, now \in SeqTimes :
              (TitleMissingOrWrong(raw) /\ create_task(raw, now))
              => last'.status = 422
       /\ (last'.op = "create_task" /\ last'.status = 422)
              => (tasks_db' = tasks_db /\ current_id' = current_id)
       /\ (last'.op = "create_task" /\ last'.status = 201)
              => last'.body[1].id = current_id + 1]_vars

\* C8 witness: a create without title rejected after an id was issued.
C8_Witness ==
    /\ Handled("create_task") /\ last.status = 422
    /\ "title" \notin last.keys
    /\ current_id = 1
    /\ Len(tasks_db) = 1

\* The update bodies with the keys of the request handled in this step.
UpdateBodiesSent == {raw \in UpdateBodies : DOMAIN raw = last'.keys}

\* C11: update_task on an existing id whose merged result the Task schema
\* rejects (the body sets title or status to null) is answered 422 and leaves
\* the stored task unchanged.
C11_InvalidMergeIs422 ==
    [][\A k \in DictKeys(tasks_db), raw \in UpdateBodiesSent :
           (/\ update_task(k, raw)
            /\ TaskUpdateValid(raw)
            /\ ~TaskValid(updated_task_data(DictGet(tasks_db, k), raw)))
           => (last'.status = 422 /\ tasks_db' = tasks_db)]_vars

\* C12: list_tasks() always answers 200 with the stored tasks in insertion
\* order: the ids ascend strictly, and an update_task leaves every task at
\* its place in the listing.
ListedIds(db) == [i \in 1 .. Len(db) |-> list_tasks(db)[i].id]

C12_ListInInsertionOrder ==
    [][/\ \A i, j \in 1 .. Len(tasks_db') :
              i < j => ListedIds(tasks_db')[i] < ListedIds(tasks_db')[j]
       /\ last'.op = "update_task" => ListedIds(tasks_db') = ListedIds(tasks_db)
       /\ last'.op = "list_tasks"
              => (last'.status = 200 /\ last'.body = list_tasks(tasks_db))]_vars

\* C12 witness: the first of two stored tasks was updated and is still listed
\* first.
C12_Witness ==
    /\ Handled("update_task") /\ last.status = 200
    /\ last.task_id = 1
    /\ ListedIds(tasks_db) = <<1, 2>>
    /\ list_tasks(tasks_db)[1].status = "done"
    /\ list_tasks(tasks_db)[1].title = "t2"

\* The create bodies with the keys of the request handled in this step.
CreateBodiesSent == {raw \in CreateBodies : DOMAIN raw = last'.keys}

\* What a created task holds in field f: the body's value, or "todo" for a
\* status and null for a description, due_date or assignee the body omits.
Defaulted(raw, f) ==
    IF f \in DOMAIN raw THEN raw[f] ELSE IF f = "status" THEN "todo" ELSE Null

\* C13: get_task(id), with no update or delete of the id since create_task
\* returned it, answers 200 with the task create_task returned, and that task
\* holds the body's values, "todo" and nulls where the body omitted them.
\* (For an id of untouched, shadow holds the task its create returned.)
C13_CreateGetRoundTrip ==
    [][/\ \A raw \in CreateBodiesSent, now \in SeqTimes :
              (create_task(raw, now) /\ last'.status = 201)
              => LET task == last'.body[1]
                 IN  /\ \A f \in BaseFields : task[f] = Defaulted(raw, f)
                     /\ task.created_at = now
                     /\ task.id \in untouched'
                     /\ shadow'[task.id] = task
       /\ \A k \in untouched \cap untouched' : shadow'[k] = shadow[k]
       /\ (last'.op = "get_task" /\ last'.task_id \in untouched)
              => (last'.status = 200 /\ last'.body = <<shadow[last'.task_id]>>)]_vars

\* C13 witness: task 1, created with a description and no status, is read
\* back after another create and an update of the other task.
C13_Witness ==
    /\ Handled("get_task") /\ last.status = 200
    /\ last.task_id = 1
    /\ 1 \in untouched
    /\ 2 \in Live \ untouched
    /\ last.body[1].description = "d1"
    /\ last.body[1].status = "todo"
    /\ last.body[1].due_date = Null

\* C14: get_task and list_tasks change neither the dict nor the counter; a
\* successful update_task(k) or delete_task(k) leaves the counter and every
\* task with another id as they were; a successful create_task leaves every
\* task stored before as it was.
OthersKept(k) ==
    \A j \in (DictKeys(tasks_db) \cup DictKeys(tasks_db')) \ {k} :
        DictGet(tasks_db', j) = DictGet(tasks_db, j)

C14_Frame ==
    [][/\ last'.op \in {"get_task", "list_tasks"}
              => (tasks_db' = tasks_db /\ current_id' = current_id)
       /\ (last'.op = "update_task" /\ last'.status = 200)
              => (OthersKept(last'.task_id) /\ current_id' = current_id)
       /\ (last'.op = "delete_task" /\ last'.status = 204)
              => (OthersKept(last'.task_id) /\ current_id' = current_id)
       /\ (last'.op = "create_task" /\ last'.status = 201)
              => \A j \in DictKeys(tasks_db) :
                     DictGet(tasks_db', j) = DictGet(tasks_db, j)]_vars

\* C14 witness: the first of two tasks, changed by an update before, was
\* deleted and the second is still stored.
C14_Witness ==
    /\ Handled("delete_task") /\ last.status = 204
    /\ last.task_id = 1
    /\ DictKeys(tasks_db) = {2}
    /\ DictGet(tasks_db, 2).status = "done"
    /\ current_id = 2

\* C17: in every state of the sequential store each key k of the dict is one
\* of 1..current_id, the task under k has id k, and current_id is the number
\* of times create_task has run.
C17_StoreWellFormed ==
    /\ \A k \in DictKeys(tasks_db) :
           /\ 1 <= k /\ k <= current_id
           /\ DictGet(tasks_db, k).id = k
    /\ Len(tasks_db) = Cardinality(DictKeys(tasks_db))
    /\ current_id = Len(created)

\* C17 witness: two creates ran, one rejected create did not, one task is left.
C17_Witness ==
    /\ current_id = 2
    /\ DictKeys(tasks_db) = {2}
    /\ Handled("create_task") /\ last.status = 422

(***************************************************************************)
(* SpecConc: the handlers are plain def functions, which the framework     *)
(* runs in a pool of threads with no lock around tasks_db and current_id.  *)
(* The interpreter may switch threads between any two reads or writes of   *)
(* the shared state.  The bodies are valid ones: a rejected body never     *)
(* reaches a handler.                                                      *)
(***************************************************************************)
ConcCreateBodies == {("title" :> "t1"), ("title" :> "t2")}
ConcUpdateBodies == {("status" :> "done"), ("title" :> "t2")}
ConcTaskIds == 1 .. MaxCreates

Free(w) == reqs[w].pc \in {"idle", "done"}
At(w, op, pc) == reqs[w].op = op /\ reqs[w].pc = pc
CreatesInFlight == {w \in Workers : reqs[w].op = "create_task" /\ ~Free(w)}
Finish(w, status) == [reqs EXCEPT ![w].pc = "done", ![w].status = status]

\* create_task, get_next_id: current_id += 1 loads current_id
create_task_load(w, raw) ==
    /\ Free(w)
    /\ Len(created) + Cardinality(CreatesInFlight) < MaxCreates
    /\ reqs' = [reqs EXCEPT ![w] =
                   Request("create_task", "store", 0, raw, current_id, NoTask, 0)]
    /\ UNCHANGED <<tasks_db, current_id, last, created, shadow, untouched>>

\* get_next_id: current_id += 1 stores the sum
create_task_store(w) ==
    /\ At(w, "create_task", "store")
    /\ current_id' = reqs[w].tmp + 1
    /\ reqs' = [reqs EXCEPT ![w].pc = "return"]
    /\ UNCHANGED <<tasks_db, last, created, shadow, untouched>>

\* get_next_id: return current_id reads the global again
create_task_return(w) ==
    /\ At(w, "create_task", "return")
    /\ reqs' = [reqs EXCEPT ![w].pc = "put", ![w].task_id = current_id]
    /\ UNCHANGED <<tasks_db, current_id, last, created, shadow, untouched>>

\* create_task: the task is built and stored, the handler returns it
create_task_put(w, now) ==
    /\ At(w, "create_task", "put")
    /\ LET task == NewTask(reqs[w].task_id, now, reqs[w].raw)
       IN  /\ tasks_db' = DictSet(tasks_db, reqs[w].task_id, task)
           /\ created' = Append(created, task.id)
           /\ shadow' = (task.id :> task) @@ shadow
    /\ reqs' = Finish(w, 201)
    /\ UNCHANGED <<current_id, last, untouched>>

\* update_task: stored_task = tasks_db.get(task_id); 404 if there is none
update_task_get(w, task_id, raw) ==
    /\ Free(w)
    /\ LET stored_task == DictGet(tasks_db, task_id)
       IN  reqs' = [reqs EXCEPT ![w] =
                       IF stored_task = NoTask
                       THEN Request("update_task", "done", task_id, raw, 0, NoTask, 404)
                       ELSE Request("update_task", "put", task_id, raw, 0, stored_task, 0)]
    /\ UNCHANGED <<tasks_db, current_id, last, created, shadow, untouched>>

\* update_task: the merge of the task read before, validated and stored
update_task_put(w) ==
    /\ At(w, "update_task", "put")
    /\ LET data == updated_task_data(reqs[w].stored_task, reqs[w].raw)
           task_id == reqs[w].task_id
       IN  IF ~TaskValid(data)
           THEN /\ reqs' = Finish(w, 500)
                /\ UNCHANGED <<tasks_db, shadow>>
           ELSE /\ tasks_db' = DictSet(tasks_db, task_id, Task(data))
                /\ shadow' = IF task_id \in DOMAIN shadow
                             THEN [shadow EXCEPT ![task_id] = Overlay(@, reqs[w].raw)]
                             ELSE shadow
                /\ reqs' = Finish(w, 200)
    /\ UNCHANGED <<current_id, last, created, untouched>>

\* delete_task: if task_id not in tasks_db: 404
delete_task_check(w, task_id) ==
    /\ Free(w)
    /\ reqs' = [reqs EXCEPT ![w] =
                   IF ~DictHas(tasks_db, task_id)
                   THEN Request("delete_task", "done", task_id, EmptyBody, 0, NoTask, 404)
                   ELSE Request("delete_task", "del", task_id, EmptyBody, 0, NoTask, 0)]
    /\ UNCHANGED <<tasks_db, current_id, last, created, shadow, untouched>>

\* delete_task: del tasks_db[task_id]; a KeyError for a key no longer there
\* is an unhandled exception, answered 500
delete_task_del(w) ==
    /\ At(w, "delete_task", "del")
    /\ IF ~DictHas(tasks_db, reqs[w].task_id)
       THEN /\ reqs' = Finish(w, 500)
            /\ UNCHANGED <<tasks_db, shadow>>
       ELSE /\ tasks_db' = Deleted(tasks_db, reqs[w].task_id)
            /\ shadow' = Without(shadow, reqs[w].task_id)
            /\ reqs' = Finish(w, 204)
    /\ UNCHANGED <<current_id, last, created, untouched>>

NextConc ==
    \/ \E w \in Workers, raw \in ConcCreateBodies : create_task_load(w, raw)
    \/ \E w \in Workers : create_task_store(w)
    \/ \E w \in Workers : create_task_return(w)
    \/ \E w \in Workers, now \in SeqTimes : create_task_put(w, now)
    \/ \E w \in Workers, task_id \in ConcTaskIds, raw \in ConcUpdateBodies :
           update_task_get(w, task_id, raw)
    \/ \E w \in Workers : update_task_put(w)
    \/ \E w \in Workers, task_id \in ConcTaskIds : delete_task_check(w, task_id)
    \/ \E w \in Workers : delete_task_del(w)

SpecConc == Init /\ [][NextConc]_vars

(***************************************************************************)
(* Properties of the store under concurrent requests (SpecConc).           *)
(***************************************************************************)
Returned(w, op, status) == At(w, op, "done") /\ reqs[w].status = status

\* C9: concurrent creates allocate and insert as one unit: no two creates get
\* the same id, and once no create is running every id given out and not
\* deleted since is a key of the dict.
C9_CreateIsAtomic ==
    /\ \A i, j \in 1 .. Len(created) : i # j => created[i] # created[j]
    /\ CreatesInFlight = {}
           => \A k \in Range(created) \cap Live : DictHas(tasks_db, k)

\* C10: two updates of the same id that set different fields and both
\* returned 200 leave a task that carries both new values.
C10_NoLostUpdate ==
    \A v, w \in Workers :
        (/\ v # w
         /\ Returned(v, "update_task", 200)
         /\ Returned(w, "update_task", 200)
         /\ reqs[v].task_id = reqs[w].task_id
         /\ DOMAIN reqs[v].raw \cap DOMAIN reqs[w].raw = {}
         /\ DictHas(tasks_db, reqs[w].task_id))
        => \A u \in {v, w} : \A f \in DOMAIN reqs[u].raw :
               DictGet(tasks_db, reqs[u].task_id)[f] = reqs[u].raw[f]

\* C15: once delete_task(k) has answered 204, k is no key of the dict in any
\* later state, whatever update_task(k) was running when it was deleted.
\* (Range(created) \ Live: the ids a response gave out and a 204 took back.)
C15_DeletedStaysDeleted ==
    \A k \in Range(created) \ Live : ~DictHas(tasks_db, k)

\* C16: delete_task ends in 204 or 404 only, and of two deletes of the same
\* id that have both returned at most one answered 204.
C16_DeleteOutcomes ==
    /\ \A w \in Workers :
           At(w, "delete_task", "done") => reqs[w].status \in {204, 404}
    /\ \A v, w \in Workers :
           (/\ v # w
            /\ Returned(v, "delete_task", 204)
            /\ Returned(w, "delete_task", 204))
           => reqs[v].task_id # reqs[w].task_id

====
